---- MODULE Spec2Model ----
(***************************************************************************)
(* The Recommendations page of CrewSync                                    *)
(* (frontend/src/pages/Recommendations.jsx) as a state machine.            *)
(*                                                                         *)
(* The seven useState slots are the view-model.  Every event handler,      *)
(* effect, promise continuation and timer callback of the component is one *)
(* atomic action (JavaScript runs each of them to completion on the UI     *)
(* thread).  The network is the set of outstanding calls; a call settles   *)
(* in any order with any response.  A continuation or timer callback reads *)
(* the constants of the render in which its handler was invoked: that      *)
(* closure is carried with the outstanding call and with the timer.        *)
(* The component is re-rendered after every action; a render that throws   *)
(* takes the page down (no error boundary), after which state setters are  *)
(* no-ops while outstanding continuations and timers still run.            *)
(***************************************************************************)
EXTENDS Integers, Sequences, FiniteSets, TLC

VARIABLES
    flights,          \* useState([])    line 8
    selectedFlight,   \* useState('')    line 9
    recommendations,  \* useState([])    line 10
    loading,          \* useState(false) line 11
    assignModal,      \* useState(null)  line 12
    assigning,        \* useState(false) line 13
    assignSuccess,    \* useState(null)  line 14
    page,             \* "constructed" | "mounted" | "crashed"
    flightsCall,      \* TRUE while api.getAllFlights() is outstanding
    recCalls,         \* outstanding api.getRecommendations(fn), in issue order
    assignCalls,      \* outstanding api.assignCrewToFlight calls with their closure
    timers,           \* pending setTimeout callbacks (FIFO: one common delay)
    alerted,          \* the alert() shown by the last step, if any
    lastOp,           \* history: the handler that ran last and its input
    failed,           \* history: some call has failed
    recsFor,          \* history: the flight whose fetch filled recommendations
    modalFor          \* history: the flight whose fetch listed assignModal

view == <<flights, selectedFlight, recommendations, loading,
          assignModal, assigning, assignSuccess>>
vars == <<flights, selectedFlight, recommendations, loading, assignModal,
          assigning, assignSuccess, page, flightsCall, recCalls, assignCalls,
          timers, alerted, lastOp, failed, recsFor, modalFor>>

----------------------------------------------------------------------------
(* Bounds of the model *)
MaxRecCalls == 2      \* recommendation fetches outstanding at once
MaxTimers == 2        \* assignment calls in flight plus reload timers pending

----------------------------------------------------------------------------
(* Values *)
Null == <<>>                      \* null / undefined
Some(x) == <<x>>                  \* a present value
Val(o) == o[1]

FlightNumbers == {"AI101", "AI202"}
Flight(fn) == [flightNumber |-> fn,
               route |-> IF fn = "AI101" THEN "DEL-BOM" ELSE "BOM-BLR"]
\* response.data of GET /flights
FlightListResponses == { <<Flight("AI101")>>, <<Flight("AI101"), Flight("AI202")>> }

Rec1 == [emp_id |-> "E1", name |-> "Asha Rao"]
Rec2 == [emp_id |-> "E2", name |-> "Vikram Shah"]
\* response.data of GET /recommendations/{flightNumber}
RecResponses == { <<>>, <<Rec1>>, <<Rec1, Rec2>> }

\* searchParams.get('flight'): null or a string
FlightParams == { Null, Some(""), Some("AI101"), Some("AI202") }

\* error.response?.data?.error of a failed assignment: undefined or a string
AssignErrors == { Null, Some(""), Some("Crew already assigned") }

\* the inputs a handler can have; each field keeps one type
NoArg == [flight |-> "", rec |-> Null, list |-> <<>>, data |-> <<>>,
          err |-> Null, call |-> Null]
Op(name, arg) == [op |-> name, arg |-> arg]

----------------------------------------------------------------------------
(* Render *)

\* flights.find(f => f.flightNumber === selectedFlight): the first match or undefined
selectedFlightData(fl, sf) ==
    IF \E i \in DOMAIN fl : fl[i].flightNumber = sf
    THEN Some(fl[CHOOSE i \in DOMAIN fl :
                    /\ fl[i].flightNumber = sf
                    /\ \A j \in DOMAIN fl : fl[j].flightNumber = sf => i <= j])
    ELSE Null

\* {assignModal && ( ... selectedFlightData.flightNumber ... )}: reading a
\* property of undefined throws a TypeError during render
RenderThrows(fl, sf, am) ==
    am # Null /\ selectedFlightData(fl, sf) = Null

\* the page after re-rendering with the new state
Render(fl, sf, am) ==
    IF page = "mounted" /\ RenderThrows(fl, sf, am) THEN "crashed" ELSE page

\* {!loading && recommendations.length > 0 && ( cards )}
CardsRendered == ~loading /\ Len(recommendations) > 0

\* <option value=""> plus one option per flight
SelectOptions == {""} \cup { flights[i].flightNumber : i \in DOMAIN flights }

----------------------------------------------------------------------------
(* loadRecommendations *)

\* mutant of loadRecommendations: the empty-value guard is missing
loadRecommendations_unguarded(flightNumber) ==
    [loading |-> IF page = "crashed" THEN loading ELSE TRUE,
     recCalls |-> Append(recCalls, flightNumber)]

\* mutant of loadRecommendations: a new fetch aborts the outstanding ones
loadRecommendations_cancelling(flightNumber) ==
    IF flightNumber = ""
    THEN [loading |-> loading, recCalls |-> recCalls]
    ELSE [loading |-> IF page = "crashed" THEN loading ELSE TRUE,
          recCalls |-> <<flightNumber>>]

\* mutant of loadRecommendations: setLoading(true) runs before the guard
loadRecommendations_loadingFirst(flightNumber) ==
    [loading |-> IF page = "crashed" THEN loading ELSE TRUE,
     recCalls |-> IF flightNumber = "" THEN recCalls
                  ELSE Append(recCalls, flightNumber)]

\* if (!flightNumber) return; setLoading(true); api.getRecommendations(flightNumber)
loadRecommendations(flightNumber) ==
    IF flightNumber = ""
    THEN [loading |-> loading, recCalls |-> recCalls]
    ELSE [loading |-> IF page = "crashed" THEN loading ELSE TRUE,
          recCalls |-> Append(recCalls, flightNumber)]

\* room for the fetch that loadRecommendations(fn) would issue
RoomFor(fn) == fn = "" \/ Len(recCalls) < MaxRecCalls

RemoveAt(s, i) == SubSeq(s, 1, i - 1) \o SubSeq(s, i + 1, Len(s))

\* the history of the slots is kept while the page is alive
Origin(p, flightNumber) == IF p = "crashed" THEN "" ELSE flightNumber

----------------------------------------------------------------------------
Init ==
    /\ flights = <<>>
    /\ selectedFlight = ""
    /\ recommendations = <<>>
    /\ loading = FALSE
    /\ assignModal = Null
    /\ assigning = FALSE
    /\ assignSuccess = Null
    /\ page = "constructed"
    /\ flightsCall = FALSE
    /\ recCalls = <<>>
    /\ assignCalls = <<>>
    /\ timers = <<>>
    /\ alerted = Null
    /\ lastOp = Op("construct", NoArg)
    /\ failed = FALSE
    /\ recsFor = ""
    /\ modalFor = ""

\* if (flightParam) { setSelectedFlight(flightParam); loadRecommendations(flightParam) }
searchParamsEffect(flightParam) ==
    LET fp == IF flightParam = Null THEN "" ELSE Val(flightParam)
        ld == loadRecommendations(fp)
    IN  /\ RoomFor(fp)
        /\ selectedFlight' = IF fp # "" THEN fp ELSE selectedFlight
        /\ loading' = ld.loading
        /\ recCalls' = ld.recCalls

\* first render: both effects run, loadFlights() issues GET /flights
Mount(flightParam) ==
    /\ page = "constructed"
    /\ flightsCall' = TRUE
    /\ searchParamsEffect(flightParam)
    /\ page' = "mounted"
    /\ alerted' = Null
    /\ lastOp' = Op("mount", NoArg)
    /\ UNCHANGED <<flights, recommendations, assignModal, assigning,
                   assignSuccess, assignCalls, timers, failed,
                   recsFor, modalFor>>

\* useEffect(..., [searchParams]) running again after a navigation on the page
searchParamsChange(flightParam) ==
    /\ page = "mounted"
    /\ searchParamsEffect(flightParam)
    /\ page' = Render(flights, selectedFlight', assignModal)
    /\ recsFor' = Origin(page', recsFor)
    /\ modalFor' = Origin(page', modalFor)
    /\ alerted' = Null
    /\ lastOp' = Op("searchParams", NoArg)
    /\ UNCHANGED <<flights, recommendations, assignModal, assigning,
                   assignSuccess, flightsCall, assignCalls, timers, failed>>

----------------------------------------------------------------------------
(* loadFlights *)

\* const response = await api.getAllFlights(); setFlights(response.data)
loadFlights_then(data) ==
    /\ flightsCall
    /\ flightsCall' = FALSE
    /\ flights' = IF page = "mounted" THEN data ELSE flights
    /\ page' = Render(flights', selectedFlight, assignModal)
    /\ recsFor' = Origin(page', recsFor)
    /\ modalFor' = Origin(page', modalFor)
    /\ alerted' = Null
    /\ lastOp' = Op("loadFlights.then", [NoArg EXCEPT !.list = data])
    /\ UNCHANGED <<selectedFlight, recommendations, loading, assignModal,
                   assigning, assignSuccess, recCalls, assignCalls, timers,
                   failed>>

\* mutant of loadFlights_catch: a failed load resets the selection
loadFlights_catch_resets ==
    /\ flightsCall
    /\ flightsCall' = FALSE
    /\ selectedFlight' = IF page = "mounted" THEN "" ELSE selectedFlight
    /\ failed' = TRUE
    /\ alerted' = Null
    /\ lastOp' = Op("loadFlights.catch", NoArg)
    /\ UNCHANGED <<flights, recommendations, loading, assignModal, assigning,
                   assignSuccess, page, recCalls, assignCalls, timers,
                   recsFor, modalFor>>

\* mutant of loadFlights_catch: the failed load is issued again
loadFlights_catch_retry ==
    /\ flightsCall
    /\ flightsCall' = TRUE
    /\ failed' = TRUE
    /\ alerted' = Null
    /\ lastOp' = Op("loadFlights.catch", NoArg)
    /\ UNCHANGED <<view, page, recCalls, assignCalls, timers,
                   recsFor, modalFor>>

\* catch (error) { console.error(...) }
loadFlights_catch ==
    /\ flightsCall
    /\ flightsCall' = FALSE
    /\ failed' = TRUE
    /\ alerted' = Null
    /\ lastOp' = Op("loadFlights.catch", NoArg)
    /\ UNCHANGED <<view, page, recCalls, assignCalls, timers,
                   recsFor, modalFor>>

----------------------------------------------------------------------------
(* loadRecommendations: continuations *)

\* the flight a listed response was fetched for ("" when it lists nobody)
fetchedFor(flightNumber, data) == IF data = <<>> THEN "" ELSE flightNumber

\* mutant of recommendationsLoaded: the response is merged into the list
recommendationsLoaded_merged(data) == recommendations \o data

\* setRecommendations(response.data)
recommendationsLoaded(data) == data

\* mutant of loadRecommendations_then: setLoading(false) is missing on success
loadRecommendations_then_noFinally(i, data) ==
    /\ i \in DOMAIN recCalls
    /\ recCalls' = RemoveAt(recCalls, i)
    /\ IF page = "mounted"
       THEN /\ recommendations' = recommendationsLoaded(data)
            /\ recsFor' = fetchedFor(recCalls[i], data)
       ELSE UNCHANGED <<recommendations, recsFor>>
    /\ alerted' = Null
    /\ lastOp' = Op("loadRecommendations.then", [NoArg EXCEPT !.data = data])
    /\ UNCHANGED <<flights, selectedFlight, loading, assignModal, assigning,
                   assignSuccess, page, flightsCall, assignCalls, timers,
                   failed,
                   modalFor>>

\* try { ... setRecommendations(response.data) } finally { setLoading(false) }
loadRecommendations_then(i, data) ==
    /\ i \in DOMAIN recCalls
    /\ recCalls' = RemoveAt(recCalls, i)
    /\ IF page = "mounted"
       THEN /\ recommendations' = recommendationsLoaded(data)
            /\ loading' = FALSE
            /\ recsFor' = fetchedFor(recCalls[i], data)
       ELSE UNCHANGED <<recommendations, loading, recsFor>>
    /\ alerted' = Null
    /\ lastOp' = Op("loadRecommendations.then", [NoArg EXCEPT !.data = data])
    /\ UNCHANGED <<flights, selectedFlight, assignModal, assigning,
                   assignSuccess, page, flightsCall, assignCalls, timers,
                   failed,
                   modalFor>>

\* mutant of loadRecommendations_catch: setLoading(false) is missing on failure
loadRecommendations_catch_noFinally(i) ==
    /\ i \in DOMAIN recCalls
    /\ recCalls' = RemoveAt(recCalls, i)
    /\ IF page = "mounted"
       THEN /\ recommendations' = <<>>
            /\ recsFor' = ""
       ELSE UNCHANGED <<recommendations, recsFor>>
    /\ failed' = TRUE
    /\ alerted' = Null
    /\ lastOp' = Op("loadRecommendations.catch", NoArg)
    /\ UNCHANGED <<flights, selectedFlight, loading, assignModal, assigning,
                   assignSuccess, page, flightsCall, assignCalls, timers,
                   modalFor>>

\* catch (error) { console.error(...); setRecommendations([]) } finally { setLoading(false) }
loadRecommendations_catch(i) ==
    /\ i \in DOMAIN recCalls
    /\ recCalls' = RemoveAt(recCalls, i)
    /\ IF page = "mounted"
       THEN /\ recommendations' = <<>>
            /\ loading' = FALSE
            /\ recsFor' = ""
       ELSE UNCHANGED <<recommendations, loading, recsFor>>
    /\ failed' = TRUE
    /\ alerted' = Null
    /\ lastOp' = Op("loadRecommendations.catch", NoArg)
    /\ UNCHANGED <<flights, selectedFlight, assignModal, assigning,
                   assignSuccess, page, flightsCall, assignCalls, timers,
                   modalFor>>

----------------------------------------------------------------------------
(* User events *)

\* <select onChange={handleFlightChange}>:
\* setSelectedFlight(flight); loadRecommendations(flight)
handleFlightChange(flight) ==
    LET ld == loadRecommendations(flight)
    IN  /\ page = "mounted"
        /\ flight \in SelectOptions
        /\ RoomFor(flight)
        /\ selectedFlight' = flight
        /\ loading' = ld.loading
        /\ recCalls' = ld.recCalls
        /\ page' = Render(flights, flight, assignModal)
        /\ recsFor' = Origin(page', recsFor)
        /\ modalFor' = Origin(page', modalFor)
        /\ alerted' = Null
        /\ lastOp' = Op("handleFlightChange", [NoArg EXCEPT !.flight = flight])
        /\ UNCHANGED <<flights, recommendations, assignModal, assigning,
                       assignSuccess, flightsCall, assignCalls, timers, failed>>

\* <RecommendationCard onAssign={handleAssign}>: setAssignModal(rec)
handleAssign(rec) ==
    /\ page = "mounted"
    /\ CardsRendered
    /\ \E i \in DOMAIN recommendations : recommendations[i] = rec
    /\ assignModal' = Some(rec)
    /\ page' = Render(flights, selectedFlight, assignModal')
    /\ recsFor' = Origin(page', recsFor)
    /\ modalFor' = Origin(page', recsFor)
    /\ alerted' = Null
    /\ lastOp' = Op("handleAssign", [NoArg EXCEPT !.rec = Some(rec)])
    /\ UNCHANGED <<flights, selectedFlight, recommendations, loading,
                   assigning, assignSuccess, flightsCall, recCalls,
                   assignCalls, timers, failed>>

\* mutant of cancelDisabled: the Cancel button is never disabled
cancelDisabled_never == FALSE

\* Cancel button: disabled={assigning}
cancelDisabled == assigning

\* Cancel button: onClick={() => setAssignModal(null)}
cancelAssign ==
    /\ page = "mounted"
    /\ assignModal # Null
    /\ ~cancelDisabled
    /\ assignModal' = Null
    /\ modalFor' = ""
    /\ alerted' = Null
    /\ lastOp' = Op("cancelAssign", NoArg)
    /\ UNCHANGED <<flights, selectedFlight, recommendations, loading,
                   assigning, assignSuccess, page, flightsCall, recCalls,
                   assignCalls, timers, failed,
                   recsFor>>

\* mutant of confirmDisabled: the Confirm button is never disabled
confirmDisabled_never == FALSE

\* Confirm button: disabled={assigning}
confirmDisabled == assigning

\* the constants of the render whose confirmAssign was invoked
Closure == [assignModal |-> Val(assignModal), selectedFlight |-> selectedFlight]

\* api.assignCrewToFlight(assignModal.emp_id, selectedFlight)
AssignRequest(c) == [emp_id |-> c.assignModal.emp_id, flight_number |-> c.selectedFlight]

\* if (!assignModal) return; setAssigning(true); await api.assignCrewToFlight(...)
confirmAssign ==
    /\ page = "mounted"
    /\ assignModal # Null
    /\ ~confirmDisabled
    /\ Len(assignCalls) + Len(timers) < MaxTimers
    /\ assigning' = TRUE
    /\ assignCalls' = Append(assignCalls, Closure)
    /\ alerted' = Null
    /\ lastOp' = Op("confirmAssign", [NoArg EXCEPT !.call = Some(Closure)])
    /\ UNCHANGED <<flights, selectedFlight, recommendations, loading,
                   assignModal, assignSuccess, page, flightsCall, recCalls,
                   timers, failed,
                   recsFor, modalFor>>

----------------------------------------------------------------------------
(* confirmAssign: continuations and the reload timer *)

\* mutant of successNotice: the notice reads the current selectedFlight
successNotice_current(c) ==
    [crewName |-> c.assignModal.name, flightNumber |-> selectedFlight]

\* setAssignSuccess({ crewName: assignModal.name, flightNumber: selectedFlight })
successNotice(c) == [crewName |-> c.assignModal.name, flightNumber |-> c.selectedFlight]

\* setAssignSuccess(...); setAssignModal(null); setTimeout(..., 3000);
\* finally { setAssigning(false) }
confirmAssign_then(i) ==
    /\ i \in DOMAIN assignCalls
    /\ assignCalls' = RemoveAt(assignCalls, i)
    /\ timers' = Append(timers, assignCalls[i])
    /\ IF page = "mounted"
       THEN /\ assignSuccess' = Some(successNotice(assignCalls[i]))
            /\ assignModal' = Null
            /\ assigning' = FALSE
            /\ modalFor' = ""
       ELSE UNCHANGED <<assignSuccess, assignModal, assigning, modalFor>>
    /\ alerted' = Null
    /\ lastOp' = Op("confirmAssign.then",
                    [NoArg EXCEPT !.call = Some(assignCalls[i])])
    /\ UNCHANGED <<flights, selectedFlight, recommendations, loading, page,
                   flightsCall, recCalls, failed,
                   recsFor>>

\* mutant of errorMsg: ?? in place of ||, an empty string is kept
errorMsg_nullish(e) ==
    IF e # Null THEN Val(e) ELSE "Failed to assign crew"

\* const errorMsg = error.response?.data?.error || 'Failed to assign crew'
errorMsg(e) ==
    IF e # Null /\ Val(e) # "" THEN Val(e) ELSE "Failed to assign crew"

\* alert(`Error: ${errorMsg}`)
alertText(e) == "Error: " \o errorMsg(e)

\* mutant of confirmAssign_catch: the reload is scheduled in the finally block
confirmAssign_catch_reloads(i, e) ==
    /\ i \in DOMAIN assignCalls
    /\ assignCalls' = RemoveAt(assignCalls, i)
    /\ timers' = Append(timers, assignCalls[i])
    /\ alerted' = Some(alertText(e))
    /\ assigning' = IF page = "mounted" THEN FALSE ELSE assigning
    /\ failed' = TRUE
    /\ lastOp' = Op("confirmAssign.catch", [NoArg EXCEPT !.err = e])
    /\ UNCHANGED <<flights, selectedFlight, recommendations, loading,
                   assignModal, assignSuccess, page, flightsCall, recCalls,
                   recsFor, modalFor>>

\* mutant of confirmAssign_catch: setAssigning(false) is missing on failure
confirmAssign_catch_noFinally(i, e) ==
    /\ i \in DOMAIN assignCalls
    /\ assignCalls' = RemoveAt(assignCalls, i)
    /\ alerted' = Some(alertText(e))
    /\ failed' = TRUE
    /\ lastOp' = Op("confirmAssign.catch", [NoArg EXCEPT !.err = e])
    /\ UNCHANGED <<flights, selectedFlight, recommendations, loading,
                   assignModal, assigning, assignSuccess, page, flightsCall,
                   recCalls, timers,
                   recsFor, modalFor>>

\* catch (error) { ...; alert(...) } finally { setAssigning(false) }
confirmAssign_catch(i, e) ==
    /\ i \in DOMAIN assignCalls
    /\ assignCalls' = RemoveAt(assignCalls, i)
    /\ alerted' = Some(alertText(e))
    /\ assigning' = IF page = "mounted" THEN FALSE ELSE assigning
    /\ failed' = TRUE
    /\ lastOp' = Op("confirmAssign.catch", [NoArg EXCEPT !.err = e])
    /\ UNCHANGED <<flights, selectedFlight, recommendations, loading,
                   assignModal, assignSuccess, page, flightsCall, recCalls,
                   timers,
                   recsFor, modalFor>>

\* the argument of loadRecommendations(selectedFlight) in the timer callback:
\* selectedFlight is the constant of the render that confirmAssign closed over
reloadFlight(c) == c.selectedFlight

\* setTimeout(() => { loadRecommendations(selectedFlight); setAssignSuccess(null) }, 3000)
timerFires ==
    LET c  == Head(timers)
        ld == loadRecommendations(reloadFlight(c))
    IN  /\ timers # <<>>
        /\ RoomFor(reloadFlight(c))
        /\ timers' = Tail(timers)
        /\ loading' = ld.loading
        /\ recCalls' = ld.recCalls
        /\ assignSuccess' = IF page = "mounted" THEN Null ELSE assignSuccess
        /\ alerted' = Null
        /\ lastOp' = Op("timer", NoArg)
        /\ UNCHANGED <<flights, selectedFlight, recommendations, assignModal,
                       assigning, page, flightsCall, assignCalls, failed,
                       recsFor, modalFor>>

----------------------------------------------------------------------------
Next ==
    \/ \E p \in FlightParams : Mount(p)
    \/ \E p \in FlightParams : searchParamsChange(p)
    \/ \E d \in FlightListResponses : loadFlights_then(d)
    \/ loadFlights_catch
    \/ \E i \in 1..MaxRecCalls + 1, d \in RecResponses : loadRecommendations_then(i, d)
    \/ \E i \in 1..MaxRecCalls + 1 : loadRecommendations_catch(i)
    \/ \E f \in {""} \cup FlightNumbers : handleFlightChange(f)
    \/ \E r \in {Rec1, Rec2} : handleAssign(r)
    \/ cancelAssign
    \/ confirmAssign
    \/ \E i \in 1..MaxTimers + 1 : confirmAssign_then(i)
    \/ \E i \in 1..MaxTimers + 1, e \in AssignErrors : confirmAssign_catch(i, e)
    \/ timerFires

Spec == Init /\ [][Next]_vars

\* an outstanding recommendation fetch settles, by success or by failure
RecommendationsSettle ==
    \E i \in 1..MaxRecCalls + 1 :
        \/ \E d \in RecResponses : loadRecommendations_then(i, d)
        \/ loadRecommendations_catch(i)

\* the same machine when the network answers every recommendation fetch
LiveSpec ==
    /\ Init /\ [][Next]_vars
    /\ WF_vars(RecommendationsSettle)

----------------------------------------------------------------------------
(* Shorthands of the properties *)

Last(s) == s[Len(s)]
Mounted == page = "mounted"
Step(name) == lastOp'.op = name
\* the name of the crew member with a given emp_id
NameOf(emp_id) == IF emp_id = Rec1.emp_id THEN Rec1.name ELSE Rec2.name
\* the recommendation fetches after issuing exactly one fetch for fn
OneMoreFetch(fn) == Append(recCalls, fn)

----------------------------------------------------------------------------
(* C1 *)

\* C1: when the reload timer of a successful assignment fires,
\* the recommendation fetch it issues is for the selectedFlight that is
\* current at that moment.
C1_ReloadUsesCurrentFlight ==
    [][(Mounted /\ Step("timer")) =>
          recCalls' = IF selectedFlight = "" THEN recCalls
                      ELSE OneMoreFetch(selectedFlight)]_vars

\* What the code does in place of C1 (a property of the model, not the
\* claim): confirming captures the selectedFlight of that moment and sends
\* the assignment for it; the success continuation hands the same capture to
\* the timer; and the timer issues exactly one recommendation fetch for the
\* captured flight, whatever selectedFlight is by then.
ReloadUsesConfirmedFlight ==
    [][/\ Step("confirmAssign") =>
            /\ Len(assignCalls') = Len(assignCalls) + 1
            /\ AssignRequest(Last(assignCalls')).flight_number = selectedFlight
            /\ Last(assignCalls').selectedFlight = selectedFlight
            /\ selectedFlight # ""
       /\ Step("confirmAssign.then") =>
            \E i \in DOMAIN assignCalls :
                /\ assignCalls' = RemoveAt(assignCalls, i)
                /\ timers' = Append(timers, assignCalls[i])
       /\ Step("timer") =>
            /\ timers # <<>>
            /\ timers' = Tail(timers)
            /\ recCalls' = OneMoreFetch(Head(timers).selectedFlight)]_vars

----------------------------------------------------------------------------
(* C2 *)

\* C2: on the live page, whenever at least one recommendation fetch is
\* outstanding, loading is true.
C2_LoadingWhileFetchOutstanding ==
    (Mounted /\ recCalls # <<>>) => loading

----------------------------------------------------------------------------
(* C3 *)

\* C3: when an assignment call succeeds on the live page, assignModal is
\* cleared and assignSuccess names the crew member whose emp_id was sent in
\* that call and the flight number sent in that call, whatever the user did
\* while the call was in flight.
C3_SuccessNoticeMatchesCall ==
    [][(Mounted /\ Step("confirmAssign.then")) =>
          \E i \in DOMAIN assignCalls :
              /\ assignCalls' = RemoveAt(assignCalls, i)
              /\ assignModal' = Null
              /\ assignSuccess' =
                    Some([crewName |-> NameOf(AssignRequest(assignCalls[i]).emp_id),
                          flightNumber |-> AssignRequest(assignCalls[i]).flight_number])]_vars

\* C3 witness: a call has succeeded after the user selected another flight
\* while it was in flight; the notice names the flight of the call.
C3_Witness ==
    /\ Mounted
    /\ lastOp.op = "confirmAssign.then"
    /\ assignModal = Null
    /\ assignSuccess # Null
    /\ selectedFlight \in FlightNumbers
    /\ Val(assignSuccess).flightNumber # selectedFlight

----------------------------------------------------------------------------
(* C4 *)

\* what a failed assignment leaves alone: the modal, the notice, the timers
FailureKeepsModal ==
    /\ assignModal' = assignModal
    /\ assignSuccess' = assignSuccess
    /\ timers' = timers
    /\ assigning' = FALSE

\* C4 (as claimed): when an assignment call fails, the modal keeps its
\* recommendation, no notice is set, no timer is scheduled, assigning is
\* false, and the alert shows the server's error string whenever the failure
\* carries one, the fallback otherwise.
C4_FailureShowsServerError ==
    [][(Mounted /\ Step("confirmAssign.catch")) =>
          /\ FailureKeepsModal
          /\ alerted' = Some("Error: " \o
                             (IF lastOp'.arg.err # Null THEN Val(lastOp'.arg.err)
                              ELSE "Failed to assign crew"))]_vars

\* C4 (amended): as above, but the alert shows the server's error string
\* only when the failure carries a non-empty one; an absent or empty error
\* string gives the fallback 'Failed to assign crew'.
C4_FailureShowsNonEmptyServerError ==
    [][(Mounted /\ Step("confirmAssign.catch")) =>
          /\ FailureKeepsModal
          /\ alerted' = Some("Error: " \o
                             (IF lastOp'.arg.err \notin {Null, Some("")}
                              THEN Val(lastOp'.arg.err)
                              ELSE "Failed to assign crew"))]_vars

\* C4 witness: a call has failed with an empty error string; the modal is
\* still open and the fallback was shown.
C4_Witness ==
    /\ Mounted
    /\ lastOp.op = "confirmAssign.catch"
    /\ lastOp.arg.err = Some("")
    /\ assignModal # Null
    /\ ~assigning
    /\ alerted = Some("Error: Failed to assign crew")

----------------------------------------------------------------------------
(* C5 *)

\* C5: a selection of a non-empty flight number F issues exactly one
\* recommendation fetch, for F; a selection of the empty value issues none.
C5_OneFetchPerSelection ==
    [][Step("handleFlightChange") =>
          LET F == lastOp'.arg.flight
          IN  /\ selectedFlight' = F
              /\ recCalls' = IF F = "" THEN recCalls ELSE OneMoreFetch(F)]_vars

\* C5 witness: the user has selected AI202 while the fetch for AI101 was
\* outstanding; both fetches are outstanding.
C5_Witness ==
    /\ lastOp.op = "handleFlightChange"
    /\ lastOp.arg.flight = "AI202"
    /\ recCalls = <<"AI101", "AI202">>

----------------------------------------------------------------------------
(* C6 *)

\* C6: after a failed flight-list load, recommendation load or assignment
\* call, every state the page reaches renders without fault (so the page
\* stays up and its controls stay usable).
C6_InteractiveAfterFailure ==
    failed => /\ page # "crashed"
              /\ ~RenderThrows(flights, selectedFlight, assignModal)

----------------------------------------------------------------------------
(* C7 *)

\* C7: on the live page, the notice of every successful assignment is shown
\* for as long as that assignment's timer is pending.
C7_NoticeShownWholeWindow ==
    Mounted =>
        \A i \in DOMAIN timers :
            assignSuccess = Some([crewName |-> timers[i].assignModal.name,
                                  flightNumber |-> timers[i].selectedFlight])

----------------------------------------------------------------------------
(* C8 *)

\* C8: the cancel action (clearing assignModal, no network call) is taken
\* only from states where assigning is false and no assignment call is in
\* flight.
C8_CancelOnlyWhenNotAssigning ==
    [][Step("cancelAssign") =>
          /\ ~assigning
          /\ assignCalls = <<>>
          /\ assignModal' = Null
          /\ UNCHANGED <<flightsCall, recCalls, assignCalls, timers>>]_vars

\* C8 witness: the modal was cancelled after an assignment call had failed,
\* that is, once assigning was false again.
C8_Witness ==
    /\ Mounted
    /\ lastOp.op = "cancelAssign"
    /\ assignModal = Null
    /\ failed
    /\ ~assigning

----------------------------------------------------------------------------
(* C9 *)

\* C9: on the live page a recommendation load replaces the whole list: the
\* response list on success, the empty list on failure; and a second
\* successful load with the same response leaves the list as the first did.
C9_LoadReplacesList ==
    [][Mounted =>
          /\ Step("loadRecommendations.then") =>
                recommendations' = lastOp'.arg.data
          /\ Step("loadRecommendations.catch") =>
                recommendations' = <<>>
          /\ ( /\ lastOp.op = "loadRecommendations.then"
               /\ Step("loadRecommendations.then")
               /\ lastOp'.arg.data = lastOp.arg.data ) =>
                recommendations' = recommendations]_vars

\* C9 witness: a load has succeeded with a one-element response while a
\* non-empty list of another load was shown; the list is that response.
C9_Witness ==
    /\ Mounted
    /\ lastOp.op = "loadRecommendations.then"
    /\ lastOp.arg.data = <<Rec1>>
    /\ recommendations = <<Rec1>>
    /\ Len(recCalls) = 1

----------------------------------------------------------------------------
(* C10 *)

\* the steps that may issue a network request: mount, a navigation to
\* another flight parameter, a flight selection, a confirmation, the timer
Triggers == {"mount", "searchParams", "handleFlightChange", "confirmAssign", "timer"}

\* some network request is issued in the step
IssuesRequest ==
    \/ flightsCall' /\ ~flightsCall
    \/ Len(recCalls') > Len(recCalls)
    \/ Len(assignCalls') > Len(assignCalls)

\* C10: a step that handles a failure only removes the failed call: it
\* issues no request and schedules no timer; and every request is issued by
\* a step of a user action, of mount or of an already scheduled timer.
C10_NoAutomaticRetry ==
    [][/\ Step("loadFlights.catch") =>
            /\ flightsCall /\ ~flightsCall'
            /\ UNCHANGED <<recCalls, assignCalls, timers>>
       /\ Step("loadRecommendations.catch") =>
            /\ \E i \in DOMAIN recCalls : recCalls' = RemoveAt(recCalls, i)
            /\ UNCHANGED <<flightsCall, assignCalls, timers>>
       /\ Step("confirmAssign.catch") =>
            /\ \E i \in DOMAIN assignCalls : assignCalls' = RemoveAt(assignCalls, i)
            /\ UNCHANGED <<flightsCall, recCalls, timers>>
       /\ IssuesRequest => lastOp'.op \in Triggers]_vars

\* C10 witness: a recommendation load has failed and nothing is outstanding
\* or scheduled: the failed fetch was not issued again.
C10_Witness ==
    /\ Mounted
    /\ lastOp.op = "loadRecommendations.catch"
    /\ selectedFlight \in FlightNumbers
    /\ recommendations = <<>>
    /\ ~loading
    /\ recCalls = <<>>
    /\ assignCalls = <<>>
    /\ timers = <<>>
    /\ ~flightsCall

----------------------------------------------------------------------------
(* C11 *)

\* C11: on the live page, assigning is true exactly when an assignment call
\* is in flight.
C11_AssigningIffCallInFlight ==
    Mounted => (assigning <=> assignCalls # <<>>)

\* C11 witness: a call that was in flight has failed; assigning is false
\* again and no call is in flight.
C11_Witness ==
    /\ Mounted
    /\ lastOp.op = "confirmAssign.catch"
    /\ ~assigning
    /\ assignCalls = <<>>
    /\ assignModal # Null

----------------------------------------------------------------------------
(* C12 *)

\* C12: on the live page, whenever loading is true at least one
\* recommendation fetch is outstanding.
C12_LoadingOnlyWhileFetching ==
    (Mounted /\ loading) => recCalls # <<>>

\* C12 witness: the reload timer has fired and its fetch is the only one
\* outstanding; loading is true.
C12_Witness ==
    /\ Mounted
    /\ lastOp.op = "timer"
    /\ loading
    /\ Len(recCalls) = 1

----------------------------------------------------------------------------
(* C13 *)

\* C13: a reload timer is scheduled only by the success continuation of an
\* assignment call, exactly one per success, for the call that succeeded; a
\* confirmation still in flight and a failed call schedule none; and the
\* only way a timer goes away is by firing, which issues its one reload.
C13_ReloadOnlyAfterSuccess ==
    [][/\ Len(timers') > Len(timers) => Step("confirmAssign.then")
       /\ Step("confirmAssign.then") =>
            \E i \in DOMAIN assignCalls :
                /\ assignCalls' = RemoveAt(assignCalls, i)
                /\ timers' = Append(timers, assignCalls[i])
       /\ (Step("confirmAssign") \/ Step("confirmAssign.catch")) =>
            timers' = timers
       /\ timers' # timers /\ Len(timers') <= Len(timers) =>
            /\ Step("timer")
            /\ timers' = Tail(timers)
            /\ Len(recCalls') = Len(recCalls) + 1]_vars

\* C13 witness: after one successful assignment its timer has fired and the
\* reload it issued is outstanding; no other timer is pending.
C13_Witness ==
    /\ Mounted
    /\ lastOp.op = "timer"
    /\ timers = <<>>
    /\ assignCalls = <<>>
    /\ assignSuccess = Null
    /\ recCalls # <<>>

----------------------------------------------------------------------------
(* C14 *)

\* s is an initial part of t
IsPrefix(s, t) == Len(s) <= Len(t) /\ SubSeq(t, 1, Len(s)) = s

\* C14: on the live page no step cancels an outstanding recommendation
\* fetch: only a settling fetch leaves the outstanding ones, one at a time
\* and in any order; its outcome (the response list, or the empty list on
\* failure) becomes recommendations whatever selectedFlight is; and no other
\* step changes recommendations.  So recommendations is always the outcome
\* of the fetch that settled last.
C14_LastSettledFetchWins ==
    [][Mounted =>
          /\ Step("loadRecommendations.then") =>
                /\ \E i \in DOMAIN recCalls : recCalls' = RemoveAt(recCalls, i)
                /\ recommendations' = lastOp'.arg.data
          /\ Step("loadRecommendations.catch") =>
                /\ \E i \in DOMAIN recCalls : recCalls' = RemoveAt(recCalls, i)
                /\ recommendations' = <<>>
          /\ ~(Step("loadRecommendations.then") \/ Step("loadRecommendations.catch")) =>
                /\ IsPrefix(recCalls, recCalls')
                /\ recommendations' = recommendations]_vars

\* C14 witness: AI202 is selected, its fetch has settled with a non-empty
\* list while the fetch for AI101 is still outstanding.
C14_Witness ==
    /\ Mounted
    /\ lastOp.op = "loadRecommendations.then"
    /\ selectedFlight = "AI202"
    /\ recCalls = <<"AI101">>
    /\ recommendations = <<Rec1, Rec2>>

----------------------------------------------------------------------------
(* C15 *)

\* a step by which the user (or the mount) triggers a load or an assignment
UserTriggers ==
    \/ Step("mount")
    \/ Step("searchParams")
    \/ Step("handleFlightChange")
    \/ Step("confirmAssign")

\* C15: when every recommendation fetch settles and the user eventually
\* stops triggering loads and assignments, the live page eventually has
\* loading false for good.
C15_LoadingEventuallyCleared ==
    <>[][~UserTriggers]_vars => <>[](Mounted => ~loading)

\* C15 witness: the last outstanding fetch has settled and loading is false
\* with recommendations shown.
C15_Witness ==
    /\ Mounted
    /\ lastOp.op = "loadRecommendations.then"
    /\ recCalls = <<>>
    /\ timers = <<>>
    /\ assignCalls = <<>>
    /\ ~loading
    /\ recommendations # <<>>

----------------------------------------------------------------------------
(* C16 *)

\* C16: selecting the empty flight value sets selectedFlight to it and
\* leaves recommendations, loading, flights, assignModal, assigning and
\* assignSuccess as they were.
C16_EmptySelectionChangesOnlySelectedFlight ==
    [][(Step("handleFlightChange") /\ lastOp'.arg.flight = "") =>
          /\ selectedFlight' = ""
          /\ UNCHANGED <<recommendations, loading, flights, assignModal,
                         assigning, assignSuccess>>]_vars

\* C16 witness: the empty value has been selected and the recommendations of
\* the flight selected before are still listed.
C16_Witness ==
    /\ Mounted
    /\ lastOp.op = "handleFlightChange"
    /\ lastOp.arg.flight = ""
    /\ selectedFlight = ""
    /\ ~loading
    /\ recommendations # <<>>

----------------------------------------------------------------------------
(* C17 *)

\* C17: the flight list is requested by the mount step and by no other
\* step, and the page is mounted once; on the live page a successful load
\* makes flights the response array; a failed load finds flights empty and
\* changes no slot of the view-model.
C17_FlightsLoadedOnceOnMount ==
    [][/\ Step("mount") => page = "constructed" /\ ~flightsCall /\ flightsCall'
       /\ flightsCall' /\ ~flightsCall => Step("mount")
       /\ page' = "constructed" => page = "constructed"
       /\ (Mounted /\ Step("loadFlights.then")) =>
            /\ flightsCall /\ ~flightsCall'
            /\ flights' = lastOp'.arg.list
       /\ Step("loadFlights.catch") =>
            /\ flightsCall /\ ~flightsCall'
            /\ flights = <<>>
            /\ UNCHANGED view]_vars

\* C17 witness: the flight-list load has failed after a flight was selected
\* through the query parameter; flights is empty and the selection stands.
C17_Witness ==
    /\ Mounted
    /\ lastOp.op = "loadFlights.catch"
    /\ flights = <<>>
    /\ ~flightsCall
    /\ selectedFlight \in FlightNumbers

----------------------------------------------------------------------------
(* C18 *)

\* C18: whenever assignModal is present, selectedFlight is non-empty and is
\* the flightNumber of some element of flights.
C18_ModalImpliesSelectedFlightKnown ==
    assignModal # Null =>
        /\ selectedFlight # ""
        /\ \E i \in DOMAIN flights : flights[i].flightNumber = selectedFlight

----------------------------------------------------------------------------
(* C19 *)

\* C19: every assign-crew call sends the emp_id of the crew member in the
\* modal together with the flight number for which the list that
\* recommended that crew member was fetched.
C19_CrewAssignedToItsFlight ==
    [][Step("confirmAssign") =>
          LET req == AssignRequest(Last(assignCalls'))
          IN  /\ req.emp_id = Val(assignModal).emp_id
              /\ req.flight_number = modalFor]_vars

\* the overlapping-fetch case of C19: a call is in flight that pairs AI202
\* with a crew member of the list fetched for AI101, and that list is still
\* shown with AI202 selected, nothing having failed or been assigned before
C19_OverlapCase ==
    /\ Mounted
    /\ lastOp.op = "confirmAssign"
    /\ Len(flights) = 2
    /\ selectedFlight = "AI202"
    /\ modalFor = "AI101"
    /\ recsFor = "AI101"
    /\ recCalls = <<>>
    /\ timers = <<>>
    /\ assignSuccess = Null
    /\ ~failed

----------------------------------------------------------------------------
(* C20 *)

\* C20: at most one assignment call is in flight; a confirmation starts
\* with none in flight and assigning false, and issues exactly one request.
C20_OneAssignmentCallAtATime ==
    [][/\ Len(assignCalls') <= 1
       /\ Step("confirmAssign") =>
            /\ ~assigning
            /\ assignCalls = <<>>
            /\ assignCalls' = <<Last(assignCalls')>>
            /\ AssignRequest(Last(assignCalls')) =
                  [emp_id |-> Val(assignModal).emp_id,
                   flight_number |-> selectedFlight]]_vars

\* C20 witness: a second confirmation has been issued after the first call
\* succeeded; it is the only call in flight.
C20_Witness ==
    /\ Mounted
    /\ lastOp.op = "confirmAssign"
    /\ Len(assignCalls) = 1
    /\ Len(timers) = 1
    /\ assigning
====
